---- MODULE Spec2Model ----
(***************************************************************************)
(* KonturExpansionChrome: the content script's invoice path (daily-rate    *)
(* cache, parseBookingData, prepareInvoice, generateInvoicePDF,            *)
(* buildPaymentQR) and the mail relay (backend/api/send-invoice.js).       *)
(*                                                                         *)
(* Money is in whole roubles: parsePrice ends in Math.round, so every      *)
(* amount scraped from the page is a non-negative integer.                 *)
(*                                                                         *)
(* parseDailyRatesFromTooltip: content.js reads its result as the array of *)
(* daily rates (rates.length, rates[d]); parseBookingData reads            *)
(* `data.rates || data`.  The model's value is that array of rates.        *)
(***************************************************************************)
EXTENDS Integers, Sequences, FiniteSets, TLC

\* ------------------------------------------------------------------------
\* Bounds of the model
\* ------------------------------------------------------------------------

\* rows of the "Стоимость проживания" tooltip a capture can hold
MaxDays == 4

\* longest stay on a booking page
MaxNights == 6

\* nightly prices shown in the tooltip (parseDailyRatesFromElement keeps
\* only prices > 0)
RateValues == {2, 5}

\* totals scraped by parseTotalPrice (0 = nothing found)
TotalValues == {0, 7, 10, 20}

VARIABLES
  page,               \* the booking page's DOM, as the scrapers read it
  tooltip,            \* the tooltip element: present or not, and its rates
  cachedDailyRates,   \* content.js:47 (null is the empty sequence)
  tooltipRetryTimer,  \* content.js:49 (TRUE while a retry is scheduled)
  urlChanged,         \* window.location.href !== lastUrl (content.js:44)
  click,              \* what the last click handler did
  wrappers,           \* which injected button wrappers are in the DOM
  debounceTimer,      \* content.js:797 (TRUE while the debounce is pending)
  tabs,               \* service worker: the UPDATE_AVAILABLE delivery per tab
  env,                \* the relay's process.env
  handlers,           \* the relay's handler invocations and their locals
  calls               \* per invocation: the SMTP / IMAP / response calls made

contentVars ==
  <<page, tooltip, cachedDailyRates, tooltipRetryTimer, urlChanged, click,
    wrappers, debounceTimer>>

updateVars == <<tabs>>

relayVars == <<env, handlers, calls>>

vars == <<contentVars, relayVars, updateVars>>

\* ------------------------------------------------------------------------
\* Arithmetic helpers
\* ------------------------------------------------------------------------

Min(a, b) == IF a < b THEN a ELSE b

\* Math.round(num / den) for num >= 0, den > 0: ties go up
MathRound(num, den) == (2 * num + den) \div (2 * den)

\* for (d = 0; d < k; d++) sum += rates[d]
RECURSIVE SumFirst(_, _)
SumFirst(rates, k) ==
  IF k = 0 THEN 0 ELSE SumFirst(rates, k - 1) + rates[k]

RECURSIVE SeqsUpTo(_, _)
SeqsUpTo(S, n) ==
  IF n = 0 THEN {<<>>}
  ELSE LET shorter == SeqsUpTo(S, n - 1)
       IN  shorter \cup {Append(s, x) : s \in shorter, x \in S}

RateSeqs == SeqsUpTo(RateValues, MaxDays)

\* ------------------------------------------------------------------------
\* data-parser.js
\* ------------------------------------------------------------------------

calculateDiscountLowThreshold(nightsCount) ==
  IF nightsCount >= 6 THEN 8
  ELSE IF nightsCount >= 3 THEN 5
  ELSE 0

calculateDiscount(nightsCount) ==
  IF nightsCount >= 6 THEN 8
  ELSE IF nightsCount >= 4 THEN 5
  ELSE 0

\* the visible tooltip's daily rates; none when no tooltip is shown
parseDailyRatesFromTooltip(tip) ==
  IF tip.present THEN tip.rates ELSE <<>>

\* prepayment as parseBookingData computes it (lines 112-130)
ParsePrepay(totalPrice, nightsCount, dailyRates) ==
  LET prepayAmount ==
        IF Len(dailyRates) > 0
        THEN SumFirst(dailyRates, Min(3, Len(dailyRates)))
        ELSE IF nightsCount > 0
             THEN MathRound(3 * totalPrice, nightsCount)
             ELSE 0
  IN  IF prepayAmount > totalPrice THEN totalPrice ELSE prepayAmount

\* parseBookingData(): <<>> is null, <<record>> the booking record
parseBookingData(pg, tip) ==
  IF ~pg.isBooking \/ ~pg.hasContainer THEN <<>>
  ELSE
    LET totalPrice == pg.totalPrice
        nightsCount == pg.nightsCount
        dailyRates == parseDailyRatesFromTooltip(tip)
        discountPercent == calculateDiscount(nightsCount)
        discountAmount == MathRound(totalPrice * discountPercent, 100)
    IN  << [ guestName |-> pg.guestName,
             guestEmail |-> pg.guestEmail,
             checkIn |-> pg.checkIn,
             checkOut |-> pg.checkOut,
             bookingNumber |-> pg.bookingNumber,
             totalPrice |-> totalPrice,
             nightsCount |-> nightsCount,
             nightlyRate |-> IF nightsCount > 0
                             THEN MathRound(totalPrice, nightsCount) ELSE 0,
             prepayAmount |-> ParsePrepay(totalPrice, nightsCount, dailyRates),
             dailyRates |-> dailyRates,
             discountPercent |-> discountPercent,
             discountAmount |-> discountAmount,
             fullPaymentWithDiscount |-> totalPrice - discountAmount,
             paidAmount |-> pg.paidAmount ] >>

\* ------------------------------------------------------------------------
\* invoice-generator.js
\* ------------------------------------------------------------------------

\* src/config/hotel-details.js (requisites, transliterated)
HOTEL_DETAILS ==
  [ name |-> "OOO Albatros", bankAccount |-> "40702810000000000001",
    bankName |-> "Bank", bik |-> "040000001",
    corrAccount |-> "30101810000000000002", inn |-> "2543193969",
    kpp |-> "254301001" ]

\* parts.join(sep)
RECURSIVE Join(_, _)
Join(parts, sep) ==
  IF Len(parts) = 0 THEN ""
  ELSE IF Len(parts) = 1 THEN parts[1]
  ELSE parts[1] \o sep \o Join(Tail(parts), sep)

buildPaymentQRSumInRoubles(hotel, amountRub, purpose) ==
  Join(<< "ST00012",
          "Name=" \o hotel.name,
          "PersonalAcc=" \o hotel.bankAccount,
          "BankName=" \o hotel.bankName,
          "BIC=" \o hotel.bik,
          "CorrespAcc=" \o hotel.corrAccount,
          "PayeeINN=" \o hotel.inn,
          "KPP=" \o hotel.kpp,
          "Sum=" \o ToString(amountRub),
          "Purpose=" \o purpose >>, "|")

buildPaymentQR(hotel, amountRub, purpose) ==
  LET sumKopeks == ToString(MathRound(amountRub * 100, 1))
  IN  Join(<< "ST00012",
              "Name=" \o hotel.name,
              "PersonalAcc=" \o hotel.bankAccount,
              "BankName=" \o hotel.bankName,
              "BIC=" \o hotel.bik,
              "CorrespAcc=" \o hotel.corrAccount,
              "PayeeINN=" \o hotel.inn,
              "KPP=" \o hotel.kpp,
              "Sum=" \o sumKopeks,
              "Purpose=" \o purpose >>, "|")

\* 'Предоплата за проживание по бронированию ' + number + ', ' + guest
PrepayPurpose(bookingData) ==
  "Prepayment for booking " \o bookingData.bookingNumber
    \o ", " \o bookingData.guestName

\* 'Оплата за проживание по бронированию ' + number + ', ' + guest
FullPurpose(bookingData) ==
  "Payment for booking " \o bookingData.bookingNumber
    \o ", " \o bookingData.guestName

\* generateInvoicePDF: what the document shows.  qr1Ok / qr2Ok: whether
\* generateQRDataUrl produced an image (null when the qrcode library is
\* missing or throws); an image is drawn only when it exists.
generateInvoicePDF(bookingData, hotelDetails, qr1Ok, qr2Ok) ==
  LET discountPercent == bookingData.discountPercent
      fullPayment ==
        IF bookingData.fullPaymentWithDiscount # 0
        THEN bookingData.fullPaymentWithDiscount
        ELSE bookingData.totalPrice
      surcharge == bookingData.totalPrice - bookingData.prepayAmount
      prepayQrData ==
        buildPaymentQR(hotelDetails, bookingData.prepayAmount,
                       PrepayPurpose(bookingData))
      fullQrData ==
        buildPaymentQR(hotelDetails, fullPayment, FullPurpose(bookingData))
  IN  [ nightsCount |-> bookingData.nightsCount,
        totalPrice |-> bookingData.totalPrice,
        prepayDesc |-> IF bookingData.nightsCount >= 3
                       THEN "3 nights" ELSE "full amount",
        prepayAmount |-> bookingData.prepayAmount,
        surchargeAtHotel |-> IF surcharge < 0 THEN 0 ELSE surcharge,
        discountPercent |-> discountPercent,
        fullPayment |-> fullPayment,
        prepayQr |-> IF qr1Ok THEN <<prepayQrData>> ELSE <<>>,
        fullQr |-> IF qr2Ok THEN <<fullQrData>> ELSE <<>> ]

\* ------------------------------------------------------------------------
\* content.js: the daily-rate cache and the invoice click handler
\* ------------------------------------------------------------------------

GoodPage(total, nights) ==
  [ isBooking |-> TRUE, hasContainer |-> TRUE,
    totalPrice |-> total, nightsCount |-> nights,
    guestName |-> "Ivanov I.", guestEmail |-> "guest@example.com",
    checkIn |-> "01.06.2025", checkOut |-> "later",
    bookingNumber |-> "OTL-15", paidAmount |-> 0 ]

\* a page on which one scraper finds nothing
DefectivePages ==
  LET g == GoodPage(10, 2)
  IN  { [g EXCEPT !.isBooking = FALSE], [g EXCEPT !.hasContainer = FALSE],
        [g EXCEPT !.guestName = ""], [g EXCEPT !.guestEmail = ""],
        [g EXCEPT !.checkIn = ""], [g EXCEPT !.checkOut = ""] }

Pages ==
  {GoodPage(t, n) : t \in TotalValues, n \in 0..MaxNights} \cup DefectivePages

NoTooltip == [present |-> FALSE, rates |-> <<>>]

Tooltips == {NoTooltip} \cup {[present |-> TRUE, rates |-> r] : r \in RateSeqs}

NoClick ==
  [ handler |-> "none", button |-> "idle", toast |-> "",
    parsed |-> <<>>, bookingData |-> <<>>, pdfResult |-> <<>>,
    downloaded |-> FALSE, message |-> <<>> ]

\* tryCaptureDailyRates(): the cache and the retry timer it leaves
tryCaptureDailyRates(tip, cache, timer) ==
  LET rates == parseDailyRatesFromTooltip(tip)
  IN  IF Len(rates) > 0
      THEN [cache |-> rates, timer |-> FALSE]
      ELSE IF ~timer /\ Len(cache) = 0 /\ tip.present
           THEN [cache |-> cache, timer |-> TRUE]
           ELSE [cache |-> cache, timer |-> timer]

\* prepareInvoice's override of prepayAmount (lines 185-194)
OverridePrepayFirstFour(totalPrice, cache) ==
  LET prepay == SumFirst(cache, Min(4, Len(cache)))
  IN  IF prepay > totalPrice THEN totalPrice ELSE prepay

OverridePrepay(totalPrice, cache) ==
  LET prepay == SumFirst(cache, Min(3, Len(cache)))
  IN  IF prepay > totalPrice THEN totalPrice ELSE prepay

\* validateBookingData without the e-mail among the required fields
validateBookingDataEmailOptional(data) ==
  (IF data.guestName = "" THEN {"guestName"} ELSE {})
    \cup (IF data.checkIn = "" THEN {"checkIn"} ELSE {})
    \cup (IF data.checkOut = "" THEN {"checkOut"} ELSE {})
    \cup (IF data.totalPrice = 0 THEN {"totalPrice"} ELSE {})

\* validateBookingData: the labels of the empty required fields
validateBookingData(data) ==
  (IF data.guestName = "" THEN {"guestName"} ELSE {})
    \cup (IF data.guestEmail = "" THEN {"guestEmail"} ELSE {})
    \cup (IF data.checkIn = "" THEN {"checkIn"} ELSE {})
    \cup (IF data.checkOut = "" THEN {"checkOut"} ELSE {})
    \cup (IF data.totalPrice = 0 THEN {"totalPrice"} ELSE {})

\* prepareInvoice(): the cache and timer it leaves and what it returns
prepareInvoice(pg, tip, cache0, timer0, qr1Ok, qr2Ok) ==
  LET cap == IF Len(cache0) = 0
             THEN tryCaptureDailyRates(tip, cache0, timer0)
             ELSE [cache |-> cache0, timer |-> timer0]
      parsed == parseBookingData(pg, tip)
      failed(text, p) ==
        [ cache |-> cap.cache, timer |-> cap.timer, button |-> "error",
          toast |-> text, parsed |-> p, bookingData |-> <<>>,
          pdfResult |-> <<>> ]
  IN  IF Len(cap.cache) = 0 THEN failed("no daily rates", <<>>)
      ELSE IF parsed = <<>> THEN failed("parse error", <<>>)
      ELSE
        LET bookingData ==
              [parsed[1] EXCEPT
                 !.prepayAmount = OverridePrepay(parsed[1].totalPrice, cap.cache),
                 !.dailyRates = cap.cache]
        IN  IF validateBookingData(bookingData) # {}
            THEN failed("missing fields", parsed)
            ELSE [ cache |-> cap.cache, timer |-> cap.timer,
                   button |-> "loading", toast |-> "",
                   parsed |-> parsed, bookingData |-> <<bookingData>>,
                   pdfResult |->
                     <<generateInvoicePDF(bookingData, HOTEL_DETAILS,
                                          qr1Ok, qr2Ok)>> ]

NoWrappers == [invoice |-> FALSE, confirm |-> FALSE]

\* tryInjectButton(): both wrappers are in the DOM afterwards when the page
\* is a booking page with a container
tryInjectButton(pg, w) ==
  IF ~pg.isBooking \/ ~pg.hasContainer
  THEN w
  ELSE [invoice |-> TRUE, confirm |-> TRUE]

\* removeButtonIfOrphaned()
removeButtonIfOrphaned(pg, w) ==
  IF ~pg.isBooking THEN NoWrappers ELSE w

\* history.pushState: the address changes, the DOM has not changed yet
Navigate ==
  /\ ~urlChanged
  /\ urlChanged' = TRUE
  /\ click' = NoClick
  /\ UNCHANGED <<page, tooltip, cachedDailyRates, tooltipRetryTimer,
                 wrappers, debounceTimer>>
  /\ UNCHANGED <<relayVars, updateVars>>

\* onDomChange() with the capture made before the reset of a URL change
onDomChangeCaptureFirst(changed, tip, cache, timer, w) ==
  LET cap == tryCaptureDailyRates(tip, cache, timer)
  IN  [ cache |-> IF changed THEN <<>> ELSE cap.cache,
        timer |-> IF changed THEN FALSE ELSE cap.timer,
        wrappers |-> IF changed THEN NoWrappers ELSE w ]

\* onDomChange() up to the debounce: the reset made on a URL change
\* (lines 801-816), then tryCaptureDailyRates()
onDomChangeSync(changed, tip, cache, timer, w) ==
  LET cache0 == IF changed THEN <<>> ELSE cache
      timer0 == IF changed THEN FALSE ELSE timer
      cap == tryCaptureDailyRates(tip, cache0, timer0)
  IN  [ cache |-> cap.cache, timer |-> cap.timer,
        wrappers |-> IF changed THEN NoWrappers ELSE w ]

\* the page mutates the DOM (the booking's content or the tooltip) and the
\* MutationObserver calls onDomChange, which leaves the debounce pending
DomChange(pages, tooltips) ==
  \E dom \in {<<p, tooltip>> : p \in pages} \cup {<<page, t>> : t \in tooltips} :
    /\ page' = dom[1]
    /\ tooltip' = dom[2]
    /\ urlChanged' = FALSE
    /\ LET r == onDomChangeSync(urlChanged, dom[2], cachedDailyRates,
                                tooltipRetryTimer, wrappers)
       IN  /\ cachedDailyRates' = r.cache
           /\ tooltipRetryTimer' = r.timer
           /\ wrappers' = r.wrappers
    /\ debounceTimer' = TRUE
    /\ click' = NoClick
    /\ UNCHANGED <<relayVars, updateVars>>

onDomChange == DomChange(Pages, Tooltips)

\* the 150 ms retry scheduled by tryCaptureDailyRates fires
TooltipRetry ==
  /\ tooltipRetryTimer
  /\ tooltipRetryTimer' = FALSE
  /\ LET retryRates == parseDailyRatesFromTooltip(tooltip)
     IN  cachedDailyRates' =
           IF Len(retryRates) > 0 THEN retryRates ELSE cachedDailyRates
  /\ click' = NoClick
  /\ UNCHANGED <<page, tooltip, urlChanged, wrappers, debounceTimer>>
  /\ UNCHANGED <<relayVars, updateVars>>

\* the "download invoice" button is clicked
handleDownloadClick ==
  \E qr1Ok \in BOOLEAN, qr2Ok \in BOOLEAN :
    LET r == prepareInvoice(page, tooltip, cachedDailyRates,
                            tooltipRetryTimer, qr1Ok, qr2Ok)
    IN  /\ cachedDailyRates' = r.cache
        /\ tooltipRetryTimer' = r.timer
        /\ click' =
             [ handler |-> "download",
               button |-> IF r.pdfResult = <<>> THEN r.button ELSE "success",
               toast |-> IF r.pdfResult = <<>> THEN r.toast ELSE "downloaded",
               parsed |-> r.parsed, bookingData |-> r.bookingData,
               pdfResult |-> r.pdfResult,
               downloaded |-> r.pdfResult # <<>>, message |-> <<>> ]
        /\ UNCHANGED <<page, tooltip, urlChanged, wrappers, debounceTimer>>
        /\ UNCHANGED <<relayVars, updateVars>>

RelayIdle ==
  /\ env = [API_KEY |-> "", SMTP_EMAIL |-> "", SMTP_PASSWORD |-> ""]
  /\ handlers = <<>>
  /\ calls = <<>>

\* no update has been found: nothing to deliver to any tab
UpdateIdle == tabs = <<>>

Init ==
  /\ page \in Pages
  /\ tooltip = NoTooltip
  /\ cachedDailyRates = <<>>
  /\ tooltipRetryTimer = FALSE
  /\ urlChanged = FALSE
  /\ click = NoClick
  /\ wrappers = NoWrappers
  /\ debounceTimer = FALSE
  /\ RelayIdle
  /\ UpdateIdle

Next ==
  \/ Navigate
  \/ onDomChange
  \/ TooltipRetry
  \/ handleDownloadClick

Spec == Init /\ [][Next]_vars

\* ------------------------------------------------------------------------
\* content.js: the buttons, the e-mail handlers and the debounced injection
\* ------------------------------------------------------------------------

\* pages of the button layer: paid and unpaid bookings, and the defective
\* pages (one of them paid but without an e-mail address)
ButtonPages ==
  {[GoodPage(t, n) EXCEPT !.paidAmount = p] :
     t \in {0, 10}, n \in {2, MaxNights}, p \in {0, 5}}
    \cup DefectivePages
    \cup {[GoodPage(10, 2) EXCEPT !.guestEmail = "", !.paidAmount = 5]}

ButtonTooltips ==
  {NoTooltip, [present |-> TRUE, rates |-> <<>>],
   [present |-> TRUE, rates |-> <<5, 5>>]}

\* generateConfirmationPDF (no debt amount found on the page)
generateConfirmationPDF(bookingData, hotelDetails) ==
  LET remaining == bookingData.totalPrice - bookingData.paidAmount
  IN  [ filename |-> "confirmation.pdf",
        payee |-> hotelDetails.name,
        paidAmount |-> bookingData.paidAmount,
        remainingAmount |-> IF remaining < 0 THEN 0 ELSE remaining,
        paidBlock |-> bookingData.paidAmount > 0 ]

\* prepareConfirmation(): what it returns and the button it leaves
prepareConfirmation(pg, tip) ==
  LET parsed == parseBookingData(pg, tip)
      failed(text) ==
        [ button |-> "error", toast |-> text, parsed |-> parsed,
          bookingData |-> <<>>, pdfResult |-> <<>> ]
  IN  IF parsed = <<>> THEN failed("parse error")
      ELSE IF \/ parsed[1].guestName = "" \/ parsed[1].checkIn = ""
              \/ parsed[1].checkOut = "" \/ parsed[1].totalPrice = 0
           THEN failed("missing fields")
           ELSE [ button |-> "loading", toast |-> "", parsed |-> parsed,
                  bookingData |-> parsed,
                  pdfResult |->
                    <<generateConfirmationPDF(parsed[1], HOTEL_DETAILS)>> ]

\* !emailData.to || emailData.to.indexOf('@') === -1 (an address scraped by
\* parseGuestEmail always holds an '@')
NoRecipient(to) == to = ""

\* sendInvoiceEmail / sendConfirmationEmail: the message handed to
\* chrome.runtime.sendMessage, or the error given to onError
sendEmail(emailData, subject) ==
  IF NoRecipient(emailData.to)
  THEN [message |-> <<>>, error |-> "no recipient"]
  ELSE [ message |->
           << [ action |-> "SEND_INVOICE_EMAIL", to |-> emailData.to,
                bookingNumber |-> emailData.bookingNumber,
                pdfFilename |-> emailData.pdfFilename,
                emailSubject |-> subject ] >>,
         error |-> "" ]

\* paidAmount <= 0 refuses the confirmation, here from 0 up
ConfirmationRefusedBelowZero(paidAmount) == paidAmount < 0

\* var paidAmount = bookingData.paidAmount || 0; if (paidAmount <= 0)
ConfirmationRefused(paidAmount) == paidAmount <= 0

\* the "send invoice" button is clicked
handleSendClick ==
  \E qr1Ok \in BOOLEAN, qr2Ok \in BOOLEAN :
    LET r == prepareInvoice(page, tooltip, cachedDailyRates,
                            tooltipRetryTimer, qr1Ok, qr2Ok)
        e == sendEmail([ to |-> r.bookingData[1].guestEmail,
                         bookingNumber |-> r.bookingData[1].bookingNumber,
                         pdfFilename |-> "invoice.pdf" ], "invoice")
        sent == r.pdfResult # <<>> /\ e.message # <<>>
    IN  /\ cachedDailyRates' = r.cache
        /\ tooltipRetryTimer' = r.timer
        /\ click' =
             [ handler |-> "send",
               button |-> IF r.pdfResult = <<>> THEN r.button
                          ELSE IF sent THEN "loading" ELSE "error",
               toast |-> IF r.pdfResult = <<>> THEN r.toast
                         ELSE IF sent THEN "" ELSE e.error,
               parsed |-> r.parsed, bookingData |-> r.bookingData,
               pdfResult |-> r.pdfResult, downloaded |-> FALSE,
               message |-> IF sent THEN e.message ELSE <<>> ]
        /\ UNCHANGED <<page, tooltip, urlChanged, wrappers, debounceTimer>>
        /\ UNCHANGED <<relayVars, updateVars>>

\* the "send confirmation" button is clicked
handleConfirmSendClick ==
  LET r == prepareConfirmation(page, tooltip)
      refused == r.pdfResult # <<>>
                   /\ ConfirmationRefused(r.bookingData[1].paidAmount)
      e == sendEmail([ to |-> r.bookingData[1].guestEmail,
                       bookingNumber |-> r.bookingData[1].bookingNumber,
                       pdfFilename |-> r.pdfResult[1].filename ],
                     "confirmation")
      sent == r.pdfResult # <<>> /\ ~refused /\ e.message # <<>>
  IN  /\ click' =
           [ handler |-> "confirmSend",
             button |-> IF sent THEN "loading" ELSE "error",
             toast |-> IF r.pdfResult = <<>> THEN r.toast
                       ELSE IF refused THEN "prepayment required"
                       ELSE IF sent THEN "" ELSE e.error,
             parsed |-> r.parsed, bookingData |-> r.bookingData,
             pdfResult |-> r.pdfResult, downloaded |-> FALSE,
             message |-> IF sent THEN e.message ELSE <<>> ]
      /\ UNCHANGED <<page, tooltip, cachedDailyRates, tooltipRetryTimer,
                     urlChanged, wrappers, debounceTimer>>
      /\ UNCHANGED <<relayVars, updateVars>>

\* the callback of chrome.runtime.sendMessage runs: lastError, a response
\* with success, or a response with an error
sendMessageCallback ==
  /\ click.message # <<>>
  /\ click.button = "loading"
  /\ \E outcome \in {"lastError", "success", "failure"} :
       click' = [click EXCEPT
                   !.button = IF outcome = "success" THEN "success" ELSE "error",
                   !.toast = IF outcome = "success" THEN "sent" ELSE outcome]
  /\ UNCHANGED <<page, tooltip, cachedDailyRates, tooltipRetryTimer,
                 urlChanged, wrappers, debounceTimer>>
  /\ UNCHANGED <<relayVars, updateVars>>

\* the 3000 ms timer of resetButtonAfterDelay fires
resetButtonAfterDelay ==
  /\ click.button \in {"error", "success"}
  /\ click' = NoClick
  /\ UNCHANGED <<page, tooltip, cachedDailyRates, tooltipRetryTimer,
                 urlChanged, wrappers, debounceTimer>>
  /\ UNCHANGED <<relayVars, updateVars>>

\* the debounce of onDomChange fires: tryInjectButton(), then
\* removeButtonIfOrphaned()
debounceTimerFires ==
  /\ debounceTimer
  /\ debounceTimer' = FALSE
  /\ wrappers' = removeButtonIfOrphaned(page, tryInjectButton(page, wrappers))
  /\ UNCHANGED <<page, tooltip, cachedDailyRates, tooltipRetryTimer,
                 urlChanged, click>>
  /\ UNCHANGED <<relayVars, updateVars>>

onDomChangeButtons == DomChange(ButtonPages, ButtonTooltips)

\* startObserver() has run: tryInjectButton() was called once
InitButtons ==
  /\ page \in ButtonPages
  /\ tooltip = NoTooltip
  /\ cachedDailyRates = <<>>
  /\ tooltipRetryTimer = FALSE
  /\ urlChanged = FALSE
  /\ click = NoClick
  /\ wrappers = tryInjectButton(page, NoWrappers)
  /\ debounceTimer = FALSE
  /\ RelayIdle
  /\ UpdateIdle

NextButtons ==
  \/ Navigate
  \/ onDomChangeButtons
  \/ TooltipRetry
  \/ debounceTimerFires
  \/ handleDownloadClick
  \/ handleSendClick
  \/ handleConfirmSendClick
  \/ sendMessageCallback
  \/ resetButtonAfterDelay

SpecButtons == InitButtons /\ [][NextButtons]_vars

\* ------------------------------------------------------------------------
\* backend/api/send-invoice.js: requests and their parsing
\* ------------------------------------------------------------------------

\* Optional values: <<>> is undefined / null, <<v>> is the value v.
\* Text that the handler inspects character by character (the recipient)
\* is a sequence of one-character strings; PDF data is a sequence of bytes;
\* base64 text is a sequence of 6-bit digits ('A' = 0 ... '/' = 63).

\* \w of a JavaScript regular expression
WordChars ==
  { "a", "b", "c", "d", "e", "f", "g", "h", "i", "j", "k", "l", "m", "n",
    "o", "p", "q", "r", "s", "t", "u", "v", "w", "x", "y", "z", "A", "B",
    "C", "D", "E", "F", "G", "H", "I", "J", "K", "L", "M", "N", "O", "P",
    "Q", "R", "S", "T", "U", "V", "W", "X", "Y", "Z", "0", "1", "2", "3",
    "4", "5", "6", "7", "8", "9", "_" }

\* /^[\w.+-]+@[\w-]+\.[\w.]+$/.test(to)
EmailPattern(to) ==
  \E at \in 1..Len(to), dot \in 1..Len(to) :
    /\ to[at] = "@"
    /\ at > 1
    /\ \A k \in 1..(at - 1) : to[k] \in WordChars \cup {".", "+", "-"}
    /\ dot > at + 1
    /\ to[dot] = "."
    /\ \A k \in (at + 1)..(dot - 1) : to[k] \in WordChars \cup {"-"}
    /\ dot < Len(to)
    /\ \A k \in (dot + 1)..Len(to) : to[k] \in WordChars \cup {"."}

\* Buffer.from(text, 'base64'): every 4 digits give 3 bytes, a trailing
\* group of 2 or 3 digits gives 1 or 2 bytes, a lone trailing digit none
Base64Byte(digits, k) ==
  LET bit == 8 * (k - 1)
      a == digits[(bit \div 6) + 1]
      b == digits[(bit \div 6) + 2]
  IN  CASE bit % 6 = 0 -> a * 4 + (b \div 16)
        [] bit % 6 = 2 -> (a % 16) * 16 + (b \div 4)
        [] bit % 6 = 4 -> (a % 4) * 64 + b

Base64Decode(digits) ==
  [k \in 1..((6 * Len(digits)) \div 8) |-> Base64Byte(digits, k)]

\* '%PDF'
PdfSignature == <<37, 80, 68, 70>>

\* pdfBuffer.length < 4 || pdfBuffer.toString('utf8', 0, 4) !== '%PDF'
NotPdf(pdfBuffer) ==
  \/ Len(pdfBuffer) < 4
  \/ SubSeq(pdfBuffer, 1, 4) # PdfSignature

\* base64 texts and the bytes they stand for:
\*   ""  "JVBERg" (%PDF)  "JVBERi0x" (%PDF-1)  "JVBE" (%PD)
\*   "SGVsbG8" (Hello)  "Q" (a lone digit: no byte)
Base64Samples ==
  { [text |-> <<>>, bytes |-> <<>>],
    [text |-> <<9, 21, 1, 4, 17, 32>>, bytes |-> <<37, 80, 68, 70>>],
    [text |-> <<9, 21, 1, 4, 17, 34, 52, 49>>,
     bytes |-> <<37, 80, 68, 70, 45, 49>>],
    [text |-> <<9, 21, 1, 4>>, bytes |-> <<37, 80, 68>>],
    [text |-> <<18, 6, 21, 44, 27, 6, 60>>,
     bytes |-> <<72, 101, 108, 108, 111>>],
    [text |-> <<16>>, bytes |-> <<>>] }

\* recipients: undefined, "", "a@b.cc", "a+x@b-c.d.e", "a@b", "a b@c.dd"
ToValues ==
  { <<>>, << <<>> >>,
    << <<"a", "@", "b", ".", "c", "c">> >>,
    << <<"a", "+", "x", "@", "b", "-", "c", ".", "d", ".", "e">> >>,
    << <<"a", "@", "b">> >>,
    << <<"a", " ", "b", "@", "c", ".", "d", "d">> >> }

\* a multipart/form-data body: its fields and its 'pdf' file part
MultipartBodies ==
  { [ format |-> "multipart", malformed |-> FALSE, parsedByPlatform |-> FALSE,
      to |-> to, subject |-> subject, text |-> text,
      pdfFilename |-> pdfFilename, pdf |-> pdf, pdfBase64 |-> <<>> ] :
    to \in ToValues, subject \in {<<>>, <<"Invoice">>},
    text \in {<<>>, <<"Hello">>}, pdfFilename \in {<<>>, <<"invoice.pdf">>},
    pdf \in {<<>>} \cup {<<b.bytes>> : b \in Base64Samples} }

\* a legacy JSON body; parsedByPlatform: req.body is already set
JsonBodies ==
  { [ format |-> "json", malformed |-> FALSE, parsedByPlatform |-> pre,
      to |-> to, subject |-> subject, text |-> text,
      pdfFilename |-> pdfFilename, pdf |-> <<>>, pdfBase64 |-> b64 ] :
    pre \in BOOLEAN,
    to \in ToValues, subject \in {<<>>, <<"Invoice">>},
    text \in {<<>>, <<"Hello">>}, pdfFilename \in {<<>>, <<"invoice.pdf">>},
    b64 \in {<<>>} \cup {<<b.text>> : b \in Base64Samples} }

GoodMultipartBody ==
  [ format |-> "multipart", malformed |-> FALSE, parsedByPlatform |-> FALSE,
    to |-> << <<"a", "@", "b", ".", "c", "c">> >>,
    subject |-> <<"Invoice">>, text |-> <<"Hello">>,
    pdfFilename |-> <<"invoice.pdf">>,
    pdf |-> << <<37, 80, 68, 70>> >>, pdfBase64 |-> <<>> ]

GoodJsonBody ==
  [ GoodMultipartBody EXCEPT !.format = "json", !.pdf = <<>>,
                             !.pdfBase64 = << <<9, 21, 1, 4, 17, 32>> >> ]

\* bodies the stream parsers reject: a broken multipart stream, broken JSON
MalformedBodies ==
  { [GoodMultipartBody EXCEPT !.malformed = TRUE],
    [GoodJsonBody EXCEPT !.malformed = TRUE] }

Bodies == MultipartBodies \cup JsonBodies \cup MalformedBodies

Request(method, apiKey, body) ==
  [method |-> method, apiKey |-> apiKey, body |-> body]

\* every request one handler is given
Requests ==
  {Request(m, "key-1", GoodMultipartBody) : m \in {"OPTIONS", "GET"}}
    \cup {Request("POST", k, b) :
            k \in {"", "key-2"}, b \in {GoodMultipartBody, GoodJsonBody}}
    \cup {Request("POST", "key-1", b) : b \in Bodies}

\* parseMultipart(req): the fields and the 'pdf' file's bytes
parseMultipart(body) ==
  [ to |-> body.to, subject |-> body.subject, text |-> body.text,
    pdfFilename |-> body.pdfFilename, pdfBuffer |-> body.pdf ]

\* the JSON branch (lines 183-191) with the base64 text taken as the bytes
parseJsonBodyNoDecode(body) ==
  [ to |-> body.to, subject |-> body.subject, text |-> body.text,
    pdfFilename |-> body.pdfFilename,
    pdfBuffer |-> IF body.pdfBase64 # <<>> /\ body.pdfBase64[1] # <<>>
                  THEN <<body.pdfBase64[1]>>
                  ELSE <<>> ]

\* the JSON branch (lines 183-191)
parseJsonBody(body) ==
  [ to |-> body.to, subject |-> body.subject, text |-> body.text,
    pdfFilename |-> body.pdfFilename,
    pdfBuffer |-> IF body.pdfBase64 # <<>> /\ body.pdfBase64[1] # <<>>
                  THEN <<Base64Decode(body.pdfBase64[1])>>
                  ELSE <<>> ]

\* ------------------------------------------------------------------------
\* backend/api/send-invoice.js: handler
\* ------------------------------------------------------------------------

\* how many invocations of the handler the serverless instance interleaves
NumHandlers == 2

\* process.env: "" is an unset variable
Envs ==
  { [API_KEY |-> k, SMTP_EMAIL |-> c[1], SMTP_PASSWORD |-> c[2]] :
    k \in {"", "key-1"},
    c \in {<<"hotel@yandex.ru", "secret">>, <<"", "secret">>,
           <<"hotel@yandex.ru", "">>} }

\* errors sendMail rejects with (code, message)
SmtpErrors ==
  { [code |-> "EAUTH", message |-> "Invalid login"],
    [code |-> "ESOCKET", message |-> "socket closed"],
    [code |-> "ECONNECTION", message |-> "connection refused"],
    [code |-> "EENVELOPE", message |-> "No recipients defined"],
    [code |-> "", message |-> "Message failed"],
    [code |-> "", message |-> ""] }

\* what imapClient.list() resolves to
FolderLists ==
  { <<>>,
    << [path |-> "INBOX", specialUse |-> ""],
       [path |-> "Otpravlennye", specialUse |-> "\\Sent"] >> }

IdleFrame ==
  [ pc |-> "idle", req |-> <<>>,
    to |-> <<>>, subject |-> <<>>, text |-> <<>>, pdfFilename |-> <<>>,
    pdfBuffer |-> <<>>, mailOptions |-> <<>>, info |-> <<>>,
    sentFolder |-> "", responses |-> <<>> ]

NoBody ==
  [ json |-> FALSE, success |-> FALSE, error |-> "", messageId |-> "",
    imapSaved |-> FALSE ]

\* { success: false, error: error }
Failure(error) == [NoBody EXCEPT !.json = TRUE, !.error = error]

\* { success: true, messageId: ..., imapSaved: ... }
Success(messageId, imapSaved) ==
  [ NoBody EXCEPT !.json = TRUE, !.success = TRUE, !.messageId = messageId,
                  !.imapSaved = imapSaved ]

\* return res.status(status).json(body)
Respond(h, status, body) ==
  [ h EXCEPT !.pc = "done",
             !.responses = Append(@, [status |-> status, body |-> body]) ]

\* clientApiKey !== serverApiKey, negated (lines 143-145)
ApiKeyMatchesOrAbsent(clientApiKey, serverApiKey) ==
  clientApiKey = "" \/ clientApiKey = serverApiKey

ApiKeyMatches(clientApiKey, serverApiKey) == clientApiKey = serverApiKey

\* the catch block's message (lines 318-326)
ErrorMessageNoDefault(error) ==
  CASE error.code = "EAUTH" -> "SMTP authorisation failed. Check SMTP_EMAIL and SMTP_PASSWORD on the server."
    [] error.code \in {"ESOCKET", "ECONNECTION"} -> "Cannot connect to the Yandex SMTP server."
    [] error.code = "EENVELOPE" -> "Invalid recipient address."
    [] OTHER -> error.message

ErrorMessage(error) ==
  CASE error.code = "EAUTH" -> "SMTP authorisation failed. Check SMTP_EMAIL and SMTP_PASSWORD on the server."
    [] error.code \in {"ESOCKET", "ECONNECTION"} -> "Cannot connect to the Yandex SMTP server."
    [] error.code = "EENVELOPE" -> "Invalid recipient address."
    [] OTHER -> IF error.message # "" THEN error.message ELSE "Unknown error"

\* the catch block (lines 315-332)
Catch(h, error) == Respond(h, 500, Failure(ErrorMessage(error)))

\* !value for an optional string; empty is the empty string in the value's
\* representation ("" or, character by character, <<>>)
Falsy(value, empty) == value = <<>> \/ value[1] = empty

\* missingFields stopping at the first field found missing
MissingFieldsFirstOnly(h) ==
  IF Falsy(h.to, <<>>) THEN <<"to">>
  ELSE IF Falsy(h.subject, "") THEN <<"subject">>
  ELSE IF Falsy(h.text, "") THEN <<"text">>
  ELSE IF Falsy(h.pdfFilename, "") THEN <<"pdfFilename">>
  ELSE IF h.pdfBuffer = <<>> \/ Len(h.pdfBuffer[1]) = 0 THEN <<"pdf">>
  ELSE <<>>

\* missingFields (lines 199-204), in the order they are pushed
MissingFields(h) ==
  (IF Falsy(h.to, <<>>) THEN <<"to">> ELSE <<>>)
    \o (IF Falsy(h.subject, "") THEN <<"subject">> ELSE <<>>)
    \o (IF Falsy(h.text, "") THEN <<"text">> ELSE <<>>)
    \o (IF Falsy(h.pdfFilename, "") THEN <<"pdfFilename">> ELSE <<>>)
    \o (IF h.pdfBuffer = <<>> \/ Len(h.pdfBuffer[1]) = 0
        THEN <<"pdf">> ELSE <<>>)

\* lines 167-261 from the parsed body on: the locals, the validation, and
\* either a 400 response or the call of transporter.sendMail
AfterBody(h0, e, parsed) ==
  LET h == [ h0 EXCEPT !.to = parsed.to, !.subject = parsed.subject,
                       !.text = parsed.text,
                       !.pdfFilename = parsed.pdfFilename,
                       !.pdfBuffer = parsed.pdfBuffer ]
  IN  IF Len(MissingFields(h)) > 0
      THEN Respond(h, 400,
             Failure("Missing required fields: "
                       \o Join(MissingFields(h), ", ")))
      ELSE IF ~EmailPattern(h.to[1])
      THEN Respond(h, 400,
             Failure("Invalid recipient email: " \o Join(h.to[1], "")))
      ELSE IF NotPdf(h.pdfBuffer[1])
      THEN Respond(h, 400, Failure("The data is not a PDF file"))
      ELSE [ h EXCEPT
               !.pc = "sending",
               !.mailOptions =
                 << [ from |-> e.SMTP_EMAIL, to |-> h.to[1],
                      subject |-> h.subject[1], text |-> h.text[1],
                      filename |-> h.pdfFilename[1],
                      content |-> h.pdfBuffer[1] ] >> ]

\* the handler checking the SMTP credentials before the API key
StartSmtpCheckFirst(e, request) ==
  LET h == [IdleFrame EXCEPT !.req = <<request>>]
  IN  IF request.method = "OPTIONS" THEN Respond(h, 200, NoBody)
      ELSE IF request.method # "POST"
      THEN Respond(h, 405, Failure("Method Not Allowed"))
      ELSE IF e.SMTP_EMAIL = "" \/ e.SMTP_PASSWORD = ""
      THEN Respond(h, 500, Failure("Server not configured: SMTP data missing"))
      ELSE IF e.API_KEY = ""
      THEN Respond(h, 500, Failure("Server not configured: API_KEY missing"))
      ELSE IF ~ApiKeyMatches(request.apiKey, e.API_KEY)
      THEN Respond(h, 401,
             Failure("Invalid API key. Check the extension settings."))
      ELSE IF request.body.format = "multipart" THEN [h EXCEPT !.pc = "parsing"]
      ELSE IF request.body.parsedByPlatform
      THEN AfterBody(h, e, parseJsonBody(request.body))
      ELSE [h EXCEPT !.pc = "parsing"]

\* lines 113-195: from the call of handler to its first await or response
Start(e, request) ==
  LET h == [IdleFrame EXCEPT !.req = <<request>>]
  IN  IF request.method = "OPTIONS" THEN Respond(h, 200, NoBody)
      ELSE IF request.method # "POST"
      THEN Respond(h, 405, Failure("Method Not Allowed"))
      ELSE IF e.API_KEY = ""
      THEN Respond(h, 500, Failure("Server not configured: API_KEY missing"))
      ELSE IF ~ApiKeyMatches(request.apiKey, e.API_KEY)
      THEN Respond(h, 401,
             Failure("Invalid API key. Check the extension settings."))
      ELSE IF e.SMTP_EMAIL = "" \/ e.SMTP_PASSWORD = ""
      THEN Respond(h, 500, Failure("Server not configured: SMTP data missing"))
      ELSE IF request.body.format = "multipart" THEN [h EXCEPT !.pc = "parsing"]
      ELSE IF request.body.parsedByPlatform
      THEN AfterBody(h, e, parseJsonBody(request.body))
      ELSE [h EXCEPT !.pc = "parsing"]

\* the request whose stream an invocation reads: its own req parameter
BodyOfFirstInvocation(i) ==
  IF handlers[1].req # <<>> THEN handlers[1].req[1].body
  ELSE handlers[i].req[1].body

BodyOf(i) == handlers[i].req[1].body

\* await parseMultipart(req) / await parseRawJson(req) settles
BodyParsed(i, h, e) ==
  LET body == BodyOf(i)
  IN  IF body.malformed
      THEN Catch(h, [ code |-> "",
                      message |-> IF body.format = "multipart"
                                  THEN "Unexpected end of form"
                                  ELSE "Cannot parse JSON: Unexpected token" ])
      ELSE AfterBody(h, e, IF body.format = "multipart"
                           THEN parseMultipart(body)
                           ELSE parseJsonBody(body))

\* await transporter.sendMail(mailOptions) settles: outcome is <<>> when it
\* resolves and <<error>> when it rejects
SendMailSettledErrorIgnored(h, outcome) ==
  [h EXCEPT !.pc = "building", !.info = <<"<message-id>">>]

SendMailSettled(h, outcome) ==
  IF outcome = <<>>
  THEN [h EXCEPT !.pc = "building", !.info = <<"<message-id>">>]
  ELSE Catch(h, outcome[1])

\* an IMAP failure reported like an SMTP failure
ImapFailedAnswers500(h) == Respond(h, 500, Failure("IMAP error"))

\* the best-effort IMAP block gives up (lines 305-313)
ImapFailed(h) == Respond(h, 200, Success(h.info[1], FALSE))

\* for (var folder of folders) if (folder.specialUse === '\\Sent') ...
RECURSIVE SentFolderOf(_)
SentFolderOf(folders) ==
  IF Len(folders) = 0 THEN "Sent"
  ELSE IF folders[1].specialUse = "\\Sent" THEN folders[1].path
  ELSE SentFolderOf(Tail(folders))

Log(i, op, ok, result) ==
  calls' = [calls EXCEPT ![i] =
             Append(@, [op |-> op, ok |-> ok, result |-> result])]

\* handler(req, res) is called with a request
HandlerCalled(i, request) ==
  /\ handlers[i].pc = "idle"
  /\ handlers' = [handlers EXCEPT ![i] = Start(env, request)]
  /\ calls' = [calls EXCEPT ![i] = <<>>]
  /\ UNCHANGED <<env, contentVars, updateVars>>

Receive == \E i \in DOMAIN handlers, request \in Requests : HandlerCalled(i, request)

ParseDone ==
  \E i \in DOMAIN handlers :
    /\ handlers[i].pc = "parsing"
    /\ handlers' = [handlers EXCEPT ![i] = BodyParsed(i, @, env)]
    /\ Log(i, "parseBody", ~BodyOf(i).malformed, <<>>)
    /\ UNCHANGED <<env, contentVars, updateVars>>

SendMailDone ==
  \E i \in DOMAIN handlers :
    /\ handlers[i].pc = "sending"
    /\ \E outcome \in {<<>>} \cup {<<err>> : err \in SmtpErrors} :
         /\ handlers' = [handlers EXCEPT ![i] = SendMailSettled(@, outcome)]
         /\ Log(i, "smtp.sendMail", outcome = <<>>, outcome)
    /\ UNCHANGED <<env, contentVars, updateVars>>

\* await mail.compile().build() settles
BuildDone ==
  \E i \in DOMAIN handlers :
    /\ handlers[i].pc = "building"
    /\ \E ok \in BOOLEAN :
         /\ handlers' = [handlers EXCEPT ![i] =
                           IF ok THEN [@ EXCEPT !.pc = "connecting"]
                           ELSE ImapFailed(@)]
         /\ Log(i, "mail.build", ok, <<>>)
    /\ UNCHANGED <<env, contentVars, updateVars>>

\* await imapClient.connect() settles
ConnectDone ==
  \E i \in DOMAIN handlers :
    /\ handlers[i].pc = "connecting"
    /\ \E ok \in BOOLEAN :
         /\ handlers' = [handlers EXCEPT ![i] =
                           IF ok THEN [@ EXCEPT !.pc = "listing",
                                                !.sentFolder = "Sent"]
                           ELSE ImapFailed(@)]
         /\ Log(i, "imap.connect", ok, <<>>)
    /\ UNCHANGED <<env, contentVars, updateVars>>

\* await imapClient.list() settles; a failure leaves sentFolder = 'Sent'
ListDone ==
  \E i \in DOMAIN handlers :
    /\ handlers[i].pc = "listing"
    /\ \E outcome \in {<<>>} \cup {<<f>> : f \in FolderLists} :
         /\ handlers' = [handlers EXCEPT ![i] =
                           [@ EXCEPT !.pc = "appending",
                                     !.sentFolder =
                                       IF outcome = <<>> THEN @
                                       ELSE SentFolderOf(outcome[1])]]
         /\ Log(i, "imap.list", outcome # <<>>, outcome)
    /\ UNCHANGED <<env, contentVars, updateVars>>

\* await imapClient.append(sentFolder, rawMessage, ['\\Seen']) settles
AppendDone ==
  \E i \in DOMAIN handlers :
    /\ handlers[i].pc = "appending"
    /\ \E ok \in BOOLEAN :
         /\ handlers' = [handlers EXCEPT ![i] =
                           IF ok THEN [@ EXCEPT !.pc = "loggingOut"]
                           ELSE ImapFailed(@)]
         /\ Log(i, "imap.append", ok, <<handlers[i].sentFolder>>)
    /\ UNCHANGED <<env, contentVars, updateVars>>

\* await imapClient.logout() settles
LogoutDone ==
  \E i \in DOMAIN handlers :
    /\ handlers[i].pc = "loggingOut"
    /\ \E ok \in BOOLEAN :
         /\ handlers' = [handlers EXCEPT ![i] =
                           IF ok
                           THEN Respond(@, 200, Success(@.info[1], TRUE))
                           ELSE ImapFailed(@)]
         /\ Log(i, "imap.logout", ok, <<>>)
    /\ UNCHANGED <<env, contentVars, updateVars>>

\* the invocation's promise has resolved and its frame is gone
Return ==
  \E i \in DOMAIN handlers :
    /\ handlers[i].pc = "done"
    /\ handlers' = [handlers EXCEPT ![i] = IdleFrame]
    /\ calls' = [calls EXCEPT ![i] = <<>>]
    /\ UNCHANGED <<env, contentVars, updateVars>>

ContentIdle ==
  /\ page = GoodPage(10, 2)
  /\ tooltip = NoTooltip
  /\ cachedDailyRates = <<>>
  /\ tooltipRetryTimer = FALSE
  /\ urlChanged = FALSE
  /\ click = NoClick
  /\ wrappers = NoWrappers
  /\ debounceTimer = FALSE

\* one invocation at a time, any request
InitRelay ==
  /\ ContentIdle
  /\ UpdateIdle
  /\ env \in Envs
  /\ handlers = <<IdleFrame>>
  /\ calls = << <<>> >>

NextRelay ==
  \/ Receive
  \/ ParseDone
  \/ SendMailDone
  \/ BuildDone
  \/ ConnectDone
  \/ ListDone
  \/ AppendDone
  \/ LogoutDone
  \/ Return

SpecRelay == InitRelay /\ [][NextRelay]_vars

\* the requests interleaved invocations are given
ConcurrentRequests ==
  { Request("GET", "key-1", GoodMultipartBody),
    Request("POST", "key-2", GoodMultipartBody),
    Request("POST", "key-1", GoodMultipartBody),
    Request("POST", "key-1", GoodJsonBody),
    Request("POST", "key-1",
            [GoodMultipartBody EXCEPT !.to = << <<"a", "@", "b">> >>]),
    Request("POST", "key-1", [GoodJsonBody EXCEPT !.pdfBase64 = <<>>]) }

ReceiveConcurrent ==
  \E i \in DOMAIN handlers, request \in ConcurrentRequests :
    HandlerCalled(i, request)

\* NumHandlers invocations interleave at their await points
InitConcurrent ==
  /\ ContentIdle
  /\ UpdateIdle
  /\ env \in Envs
  /\ handlers = [i \in 1..NumHandlers |-> IdleFrame]
  /\ calls = [i \in 1..NumHandlers |-> <<>>]

NextConcurrent ==
  \/ ReceiveConcurrent
  \/ ParseDone
  \/ SendMailDone
  \/ BuildDone
  \/ ConnectDone
  \/ ListDone
  \/ AppendDone
  \/ LogoutDone
  \/ Return

SpecConcurrent == InitConcurrent /\ [][NextConcurrent]_vars

\* ------------------------------------------------------------------------
\* service worker: delivery of UPDATE_AVAILABLE to the tabs
\* ------------------------------------------------------------------------

\* hotel.kontur.ru tabs chrome.tabs.query can return
MaxTabs == 3

\* sendWithRetry giving up one attempt later
sendWithRetryFourAttempts(chain, attempt) ==
  IF attempt > 3
  THEN [chain EXCEPT !.phase = "gaveUp", !.attempt = attempt]
  ELSE [chain EXCEPT !.phase = "timer", !.attempt = attempt,
                     !.delay = attempt * 500]

\* sendWithRetry(tabId, result, attempt): gives up, or leaves a timer
sendWithRetry(chain, attempt) ==
  IF attempt > 2
  THEN [chain EXCEPT !.phase = "gaveUp", !.attempt = attempt]
  ELSE [chain EXCEPT !.phase = "timer", !.attempt = attempt,
                     !.delay = attempt * 500]

\* a tab nothing has been sent to yet
NewChain == [phase |-> "new", attempt |-> 0, delay |-> 0, attempts |-> <<>>]

ChainEnded(chain) == chain.phase \in {"delivered", "gaveUp"}

\* sendMessageToAllTabs(result): the callback of chrome.tabs.query starts
\* sendWithRetry(tab.id, result, 0) for each tab found
sendMessageToAllTabs ==
  /\ \A t \in DOMAIN tabs : ChainEnded(tabs[t])
  /\ \E n \in 0..MaxTabs :
       tabs' = [t \in 1..n |-> sendWithRetry(NewChain, 0)]
  /\ UNCHANGED <<contentVars, relayVars>>

\* the setTimeout of sendWithRetry fires: chrome.tabs.sendMessage is called
sendWithRetryTimer ==
  \E t \in DOMAIN tabs :
    /\ tabs[t].phase = "timer"
    /\ tabs' = [tabs EXCEPT ![t] =
                  [@ EXCEPT !.phase = "sending",
                            !.attempts =
                              Append(@, [delay |-> tabs[t].delay,
                                         result |-> "pending"])]]
    /\ UNCHANGED <<contentVars, relayVars>>

\* the callback of chrome.tabs.sendMessage runs, with or without lastError
sendMessageResponse ==
  \E t \in DOMAIN tabs, lastError \in BOOLEAN :
    /\ tabs[t].phase = "sending"
    /\ LET n == Len(tabs[t].attempts)
           settled ==
             [tabs[t] EXCEPT
                !.attempts[n].result =
                  IF lastError THEN "failed" ELSE "delivered"]
       IN  tabs' = [tabs EXCEPT ![t] =
                      IF lastError
                      THEN sendWithRetry(settled, settled.attempt + 1)
                      ELSE [settled EXCEPT !.phase = "delivered"]]
    /\ UNCHANGED <<contentVars, relayVars>>

InitUpdate ==
  /\ ContentIdle
  /\ RelayIdle
  /\ UpdateIdle

NextUpdate ==
  \/ sendMessageToAllTabs
  \/ sendWithRetryTimer
  \/ sendMessageResponse

SpecUpdate == InitUpdate /\ [][NextUpdate]_vars

\* ------------------------------------------------------------------------
\* Claims about the invoice path (checked under Spec)
\* ------------------------------------------------------------------------

\* the sum of the first min(3, n) entries of r, written out
FirstThree(r) ==
  IF Len(r) >= 3 THEN r[1] + r[2] + r[3]
  ELSE IF Len(r) = 2 THEN r[1] + r[2]
  ELSE IF Len(r) = 1 THEN r[1]
  ELSE 0

\* q is num / den rounded to the nearest integer, ties up
IsRounded(q, num, den) ==
  /\ 2 * den * q - den <= 2 * num
  /\ 2 * num < 2 * den * q + den

PrepayIsCappedSum(b) ==
  /\ b.prepayAmount = Min(FirstThree(b.dailyRates), b.totalPrice)
  /\ b.prepayAmount <= b.totalPrice

\* C1 as stated: in the record parseBookingData returns and in the record
\* prepareInvoice hands to generateInvoicePDF, prepayAmount is the sum of the
\* first min(3, n) daily rates, replaced by totalPrice when larger.
C1_PrepayIsCappedSumEverywhere ==
  /\ click.parsed # <<>> => PrepayIsCappedSum(click.parsed[1])
  /\ click.bookingData # <<>> => PrepayIsCappedSum(click.bookingData[1])

\* C1 amended: the record handed to generateInvoicePDF always carries at
\* least one daily rate and its prepayAmount is the capped sum of the first
\* min(3, n) rates; parseBookingData computes the same when the tooltip gave
\* n >= 1 rates, and with no rates falls back to round(3 * totalPrice /
\* nightsCount) (0 when nightsCount is 0), capped too; prepayAmount <=
\* totalPrice holds in both records.
C1_PrepayCappedSumOrFallback ==
  /\ click.bookingData # <<>> =>
       /\ Len(click.bookingData[1].dailyRates) >= 1
       /\ PrepayIsCappedSum(click.bookingData[1])
  /\ click.parsed # <<>> =>
       LET b == click.parsed[1]
       IN  /\ b.prepayAmount <= b.totalPrice
           /\ Len(b.dailyRates) >= 1 => PrepayIsCappedSum(b)
           /\ Len(b.dailyRates) = 0 /\ b.nightsCount = 0 => b.prepayAmount = 0
           /\ Len(b.dailyRates) = 0 /\ b.nightsCount > 0 =>
                \E q \in 0..(3 * b.totalPrice) :
                  /\ IsRounded(q, 3 * b.totalPrice, b.nightsCount)
                  /\ b.prepayAmount = Min(q, b.totalPrice)

\* C1 witness: four rates were cached, the first three exceed the total and
\* the prepayment was capped, while parseBookingData saw no tooltip.
C1_Witness ==
  /\ click.bookingData # <<>>
  /\ click.parsed[1].dailyRates = <<>>
  /\ LET b == click.bookingData[1]
     IN  /\ Len(b.dailyRates) = 4
         /\ FirstThree(b.dailyRates) > b.totalPrice
         /\ b.prepayAmount = b.totalPrice

DiscountIsByLengthOfStay(b) ==
  /\ b.nightsCount <= 3 => b.discountPercent = 0
  /\ b.nightsCount \in 4..5 => b.discountPercent = 5
  /\ b.nightsCount >= 6 => b.discountPercent = 8
  /\ IsRounded(b.discountAmount, b.totalPrice * b.discountPercent, 100)
  /\ b.fullPaymentWithDiscount = b.totalPrice - b.discountAmount
  /\ 0 <= b.fullPaymentWithDiscount
  /\ b.fullPaymentWithDiscount <= b.totalPrice

\* C2: the discount is 0% up to 3 nights, 5% for 4-5 nights, 8% from 6
\* nights; discountAmount = round(totalPrice * percent / 100),
\* fullPaymentWithDiscount = totalPrice - discountAmount, and
\* 0 <= fullPaymentWithDiscount <= totalPrice.
C2_VolumeDiscount ==
  /\ click.parsed # <<>> => DiscountIsByLengthOfStay(click.parsed[1])
  /\ click.bookingData # <<>> => DiscountIsByLengthOfStay(click.bookingData[1])

\* C2 witness: a 5% discount whose amount is a tie (0.5) rounded up.
C2_Witness ==
  /\ click.bookingData # <<>>
  /\ click.bookingData[1].discountPercent = 5
  /\ click.bookingData[1].totalPrice = 10
  /\ click.bookingData[1].discountAmount = 1

\* C3: on the invoice of a stay of 1 to 3 nights the prepayment equals the
\* total price, whatever daily rates were captured.
C3_ShortStayPrepayIsTotal ==
  click.pdfResult # <<>> /\ click.pdfResult[1].nightsCount \in 1..3 =>
    click.pdfResult[1].prepayAmount = click.pdfResult[1].totalPrice

\* C4: the invoice carries the second (full payment) QR code only when
\* prepayAmount < totalPrice, and a stay of 1-3 nights gets the prepayment
\* QR code alone.
C4_SecondQROnlyWhenPrepayBelowTotal ==
  /\ click.pdfResult # <<>>
  /\ click.pdfResult[1].nightsCount >= 1
  /\ click.pdfResult[1].fullQr # <<>>
  => /\ click.pdfResult[1].prepayAmount < click.pdfResult[1].totalPrice
     /\ click.pdfResult[1].nightsCount >= 4

QRText(sum, purpose) ==
  "ST00012|Name=OOO Albatros|PersonalAcc=40702810000000000001"
    \o "|BankName=Bank|BIC=040000001|CorrespAcc=30101810000000000002"
    \o "|PayeeINN=2543193969|KPP=254301001|Sum=" \o ToString(sum)
    \o "|Purpose=" \o purpose

ImapOps == {"imap.connect", "imap.list", "imap.append", "imap.logout"}

ImapPcs == {"connecting", "listing", "appending", "loggingOut"}

Called(i, op) == \E k \in 1..Len(calls[i]) : calls[i][k].op = op

Settled(i, op, ok) ==
  \E k \in 1..Len(calls[i]) : calls[i][k].op = op /\ calls[i][k].ok = ok

\* invocation i holds a POST whose X-API-Key is absent or is not API_KEY
WrongKeyPost(i) ==
  /\ handlers[i].req # <<>>
  /\ handlers[i].req[1].method = "POST"
  /\ \/ handlers[i].req[1].apiKey = ""
     \/ handlers[i].req[1].apiKey # env.API_KEY

NothingSent(i) ==
  /\ handlers[i].pc = "done"
  /\ calls[i] = <<>>
  /\ handlers[i].mailOptions = <<>>
  /\ Len(handlers[i].responses) = 1
  /\ handlers[i].responses[1].body.json
  /\ ~handlers[i].responses[1].body.success

\* C5 as stated: a POST whose X-API-Key is absent or differs from API_KEY is
\* answered 401 with success=false, and no SMTP or IMAP call is made for it.
C5_WrongKeyAnswered401 ==
  \A i \in DOMAIN handlers :
    WrongKeyPost(i) =>
      /\ NothingSent(i)
      /\ handlers[i].responses[1].status = 401

\* C5 amended: such a POST is answered 401 with success=false when the
\* server's API_KEY is configured and 500 with success=false when it is
\* not; in both cases no SMTP or IMAP call is made for it.
C5_WrongKeyRejectedNothingSent ==
  \A i \in DOMAIN handlers :
    WrongKeyPost(i) =>
      /\ NothingSent(i)
      /\ handlers[i].responses[1].status =
           IF env.API_KEY # "" THEN 401 ELSE 500

\* C5 witness: a POST without the header was answered 401.
C5_Witness ==
  \E i \in DOMAIN handlers :
    /\ WrongKeyPost(i)
    /\ handlers[i].req[1].apiKey = ""
    /\ handlers[i].pc = "done"
    /\ handlers[i].responses[1].status = 401

\* C6: an IMAP call is made for a request only after sendMail succeeded for
\* that request; when sendMail fails no IMAP connection is opened and the
\* response is 500 with success=false.
C6_SmtpBeforeImap ==
  \A i \in DOMAIN handlers :
    /\ (handlers[i].pc \in ImapPcs \/ \E op \in ImapOps : Called(i, op)) =>
         /\ handlers[i].info # <<>>
         /\ \E k \in 1..Len(calls[i]) :
              /\ calls[i][k].op = "smtp.sendMail" /\ calls[i][k].ok
              /\ \A m \in 1..k : calls[i][m].op \notin ImapOps
    /\ Settled(i, "smtp.sendMail", FALSE) =>
         /\ handlers[i].pc = "done"
         /\ \A op \in ImapOps : ~Called(i, op)
         /\ Len(handlers[i].responses) = 1
         /\ handlers[i].responses[1].status = 500
         /\ ~handlers[i].responses[1].body.success

\* C6 witness: the message was sent and then appended by IMAP.
C6_Witness ==
  \E i \in DOMAIN handlers :
    /\ Settled(i, "smtp.sendMail", TRUE)
    /\ Settled(i, "imap.append", TRUE)

\* C7: a request gets exactly one response, given when its handler
\* finishes; after a successful send it is 200 with success=true and the
\* messageId; any other POST gets success=false with a non-empty error and
\* status 400, 401, 405 or 500.
C7_OneResponse ==
  \A i \in DOMAIN handlers :
    LET h == handlers[i]
    IN  /\ Len(h.responses) <= 1
        /\ h.pc = "done" <=> Len(h.responses) = 1
        /\ h.pc = "done" =>
             LET r == h.responses[1]
             IN  /\ Settled(i, "smtp.sendMail", TRUE) =>
                      /\ r.status = 200
                      /\ r.body.json /\ r.body.success
                      /\ r.body.messageId = "<message-id>"
                 /\ r.body.success => Settled(i, "smtp.sendMail", TRUE)
                 /\ h.req[1].method = "POST"
                      /\ ~Settled(i, "smtp.sendMail", TRUE) =>
                      /\ r.body.json /\ ~r.body.success
                      /\ r.body.error # ""
                      /\ r.status \in {400, 401, 405, 500}

\* C7 witness: sendMail rejected with an error that has no message and the
\* response carries the default text.
C7_Witness ==
  \E i \in DOMAIN handlers :
    /\ handlers[i].pc = "done"
    /\ Settled(i, "smtp.sendMail", FALSE)
    /\ handlers[i].responses[1].body.error = "Unknown error"

\* the bytes a base64 sample stands for
BytesOf(text) == (CHOOSE b \in Base64Samples : b.text = text).bytes

\* the multipart request with the same fields and the decoded PDF
TwinBody(body) ==
  [ body EXCEPT !.format = "multipart", !.parsedByPlatform = FALSE,
                !.pdfBase64 = <<>>,
                !.pdf = IF body.pdfBase64 = <<>> THEN <<>>
                        ELSE <<BytesOf(body.pdfBase64[1])>> ]

Content(buffer) == IF buffer = <<>> THEN <<>> ELSE buffer[1]

\* C8: a JSON request is validated like, and ends like, the multipart
\* request carrying the same fields and the decoded PDF bytes: the same
\* locals, the same 400 response, or the same message handed to sendMail.
C8_LegacyJsonLikeMultipart ==
  \A i \in DOMAIN handlers :
    LET h == handlers[i]
    IN  /\ h.req # <<>>
        /\ h.req[1].body.format = "json"
        /\ ~h.req[1].body.malformed
        /\ h.req[1].method = "POST"
        /\ h.req[1].apiKey = env.API_KEY
        /\ env.API_KEY # "" /\ env.SMTP_EMAIL # "" /\ env.SMTP_PASSWORD # ""
        /\ h.pc # "parsing"
        => LET t == AfterBody([IdleFrame EXCEPT !.req = h.req], env,
                              parseMultipart(TwinBody(h.req[1].body)))
           IN  /\ h.to = t.to /\ h.subject = t.subject /\ h.text = t.text
               /\ h.pdfFilename = t.pdfFilename
               /\ Content(h.pdfBuffer) = Content(t.pdfBuffer)
               /\ h.mailOptions = t.mailOptions
               /\ t.pc = "done" => h.pc = "done" /\ h.responses = t.responses
               /\ t.pc = "sending" =>
                    h.pc = "sending" \/ Called(i, "smtp.sendMail")

\* C8 witness: a JSON request with a base64 PDF reached sendMail with the
\* decoded bytes attached.
C8_Witness ==
  \E i \in DOMAIN handlers :
    /\ handlers[i].pc = "sending"
    /\ handlers[i].req[1].body.format = "json"
    /\ handlers[i].req[1].body.pdfBase64 = << <<9, 21, 1, 4, 17, 34, 52, 49>> >>
    /\ handlers[i].mailOptions[1].content = <<37, 80, 68, 70, 45, 49>>

\* the call an invocation is waiting for
PendingOp(pc) ==
  CASE pc = "parsing" -> "parseBody"
    [] pc = "sending" -> "smtp.sendMail"
    [] pc = "building" -> "mail.build"
    [] pc = "connecting" -> "imap.connect"
    [] pc = "listing" -> "imap.list"
    [] pc = "appending" -> "imap.append"
    [] pc = "loggingOut" -> "imap.logout"
    [] OTHER -> "none"

\* C10: two invocations given the same request differ only through the
\* results of their own SMTP / IMAP / parsing calls: they make the same
\* calls as long as the results agree, and with the same results they are
\* in the same state and give the same response, whatever else the
\* instance handled before or in between.
C10_Stateless ==
  \A i \in DOMAIN handlers, j \in DOMAIN handlers :
    /\ i # j
    /\ handlers[i].req # <<>>
    /\ handlers[i].req = handlers[j].req
    => LET a == calls[i]
           b == calls[j]
           n == Min(Len(a), Len(b))
           agree == \A k \in 1..n : a[k] = b[k]
       IN  /\ \A k \in 1..n :
                (\A m \in 1..(k - 1) : a[m] = b[m]) => a[k].op = b[k].op
           /\ agree /\ Len(a) = Len(b) => handlers[i] = handlers[j]
           /\ agree /\ Len(a) < Len(b) =>
                PendingOp(handlers[i].pc) = b[Len(a) + 1].op

\* C10 witness: two invocations of the same request overlap; one has been
\* answered 200 and the other, whose sendMail failed, 500.
C10_Witness ==
  \E i \in DOMAIN handlers, j \in DOMAIN handlers :
    /\ handlers[i].req # <<>>
    /\ handlers[i].req = handlers[j].req
    /\ handlers[i].pc = "done" /\ handlers[j].pc = "done"
    /\ handlers[i].responses[1].status = 200
    /\ handlers[j].responses[1].status = 500

\* ------------------------------------------------------------------------
\* Claims about the buttons (checked under SpecButtons)
\* ------------------------------------------------------------------------

\* the paidAmount the last click parsed; 0 when it is missing
PaidAmountParsed ==
  IF click.parsed = <<>> THEN 0 ELSE click.parsed[1].paidAmount

\* C11: handleConfirmSendClick hands a message to the service worker only
\* when the parsed paidAmount is greater than 0; when it is 0 or missing no
\* message is sent and the handler leaves the button in the error state.
C11_ConfirmationOnlyWhenPaid ==
  click.handler = "confirmSend" =>
    /\ click.message # <<>> => PaidAmountParsed > 0
    /\ PaidAmountParsed <= 0 =>
         /\ click.message = <<>>
         /\ click.button = "error"

\* C11 witness: a complete booking with nothing paid was refused.
C11_Witness ==
  /\ click.handler = "confirmSend"
  /\ click.pdfResult # <<>>
  /\ PaidAmountParsed = 0
  /\ click.toast = "prepayment required"
  /\ click.button = "error"

\* C12: a call of onDomChange that finds the URL changed empties
\* cachedDailyRates, cancels the pending tooltip retry and removes both
\* button wrappers before it attempts a capture: what it leaves is what
\* tryCaptureDailyRates makes of an empty cache with no timer pending, and
\* no wrapper.
C12_UrlChangeResetsBeforeCapture ==
  [][ urlChanged /\ ~urlChanged' =>
        LET cap == tryCaptureDailyRates(tooltip', <<>>, FALSE)
        IN  /\ cachedDailyRates' = cap.cache
            /\ tooltipRetryTimer' = cap.timer
            /\ wrappers' = NoWrappers ]_vars

\* C12 witness: the buttons are gone from a booking page and the rates of
\* the tooltip showing on the new page are in the cache, the debounced
\* re-injection still pending.
C12_Witness ==
  /\ ~urlChanged
  /\ page.isBooking /\ page.hasContainer
  /\ wrappers = NoWrappers
  /\ debounceTimer
  /\ tooltip.present
  /\ cachedDailyRates = <<5, 5>>

\* ------------------------------------------------------------------------
\* Claims about the update notification (checked under SpecUpdate)
\* ------------------------------------------------------------------------

RetryDelays == <<0, 500, 1000>>

\* C13: sendWithRetry makes at most 3 attempts per tab, timed 0 ms, 500 ms
\* and 1000 ms; an attempt is made, or scheduled, only after every earlier
\* one failed, so none follows a delivery.
C13_AtMostThreeAttempts ==
  \A t \in DOMAIN tabs :
    LET a == tabs[t].attempts
    IN  /\ Len(a) <= 3
        /\ \A k \in 1..Len(a) :
             /\ a[k].delay = RetryDelays[k]
             /\ k < Len(a) => a[k].result = "failed"
        /\ tabs[t].phase = "timer" =>
             /\ Len(a) < 3
             /\ \A k \in 1..Len(a) : a[k].result = "failed"
        /\ tabs[t].phase = "delivered" =>
             a[Len(a)].result = "delivered"
        /\ tabs[t].phase = "gaveUp" =>
             /\ Len(a) = 3
             /\ \A k \in 1..3 : a[k].result = "failed"

\* C13 witness: a tab was reached at the third attempt, 1000 ms after the
\* second failure.
C13_Witness ==
  \E t \in DOMAIN tabs :
    /\ tabs[t].phase = "delivered"
    /\ Len(tabs[t].attempts) = 3
    /\ tabs[t].attempts[3] = [delay |-> 1000, result |-> "delivered"]

\* ------------------------------------------------------------------------
\* Claims about the relay's validation (checked under SpecRelay)
\* ------------------------------------------------------------------------

\* invocation i holds a POST carrying the server's API key
Authenticated(i) ==
  /\ handlers[i].req # <<>>
  /\ handlers[i].req[1].method = "POST"
  /\ env.API_KEY # ""
  /\ handlers[i].req[1].apiKey = env.API_KEY

SmtpConfigured == env.SMTP_EMAIL # "" /\ env.SMTP_PASSWORD # ""

\* the PDF bytes a request carries
RequestPdf(body) ==
  IF body.format = "multipart" THEN Content(body.pdf)
  ELSE IF body.pdfBase64 = <<>> THEN <<>> ELSE BytesOf(body.pdfBase64[1])

\* is the named part of the request absent or empty
RequestLacks(body, field) ==
  CASE field = "to" -> body.to = <<>> \/ body.to[1] = <<>>
    [] field = "subject" -> body.subject = <<>> \/ body.subject[1] = ""
    [] field = "text" -> body.text = <<>> \/ body.text[1] = ""
    [] field = "pdfFilename" ->
         body.pdfFilename = <<>> \/ body.pdfFilename[1] = ""
    [] field = "pdf" -> RequestPdf(body) = <<>>

RequestMissing(body) ==
  SelectSeq(<<"to", "subject", "text", "pdfFilename", "pdf">>,
            LAMBDA f : RequestLacks(body, f))

RequestValid(body) ==
  /\ RequestMissing(body) = <<>>
  /\ EmailPattern(body.to[1])
  /\ Len(RequestPdf(body)) >= 4
  /\ SubSeq(RequestPdf(body), 1, 4) = <<37, 80, 68, 70>>

\* the 400 answers for a request that is not valid
Answered400(i) ==
  LET h == handlers[i]
      missing == RequestMissing(h.req[1].body)
  IN  /\ Len(h.responses) = 1
      /\ h.responses[1].status = 400
      /\ h.responses[1].body.json /\ ~h.responses[1].body.success
      /\ h.responses[1].body.error # ""
      /\ missing # <<>> =>
           h.responses[1].body.error =
             "Missing required fields: " \o Join(missing, ", ")

SendMailOnlyIfValid(i) ==
  handlers[i].pc = "sending" \/ Called(i, "smtp.sendMail") =>
    /\ ~handlers[i].req[1].body.malformed
    /\ RequestValid(handlers[i].req[1].body)

FirstFailingCheck(request) ==
  IF env.API_KEY = "" THEN "apiKeyConfigured"
  ELSE IF request.apiKey # env.API_KEY THEN "apiKey"
  ELSE IF ~SmtpConfigured THEN "smtpConfigured"
  ELSE IF request.body.malformed THEN "bodyParsing"
  ELSE IF RequestMissing(request.body) # <<>> THEN "requiredFields"
  ELSE IF ~EmailPattern(request.body.to[1]) THEN "emailFormat"
  ELSE IF ~RequestValid(request.body) THEN "pdfSignature"
  ELSE "none"

\* the response each failing check gives
AnsweredBy(check, request, response) ==
  /\ response.body.json /\ ~response.body.success
  /\ CASE check = "apiKeyConfigured" ->
            /\ response.status = 500
            /\ response.body.error = "Server not configured: API_KEY missing"
       [] check = "apiKey" ->
            /\ response.status = 401
            /\ response.body.error =
                 "Invalid API key. Check the extension settings."
       [] check = "smtpConfigured" ->
            /\ response.status = 500
            /\ response.body.error = "Server not configured: SMTP data missing"
       [] check = "bodyParsing" ->
            /\ response.status = 500
            /\ response.body.error \in
                 {"Unexpected end of form", "Cannot parse JSON: Unexpected token"}
       [] check = "requiredFields" ->
            /\ response.status = 400
            /\ response.body.error =
                 "Missing required fields: "
                   \o Join(RequestMissing(request.body), ", ")
       [] check = "emailFormat" ->
            /\ response.status = 400
            /\ response.body.error =
                 "Invalid recipient email: " \o Join(request.body.to[1], "")
       [] check = "pdfSignature" ->
            /\ response.status = 400
            /\ response.body.error = "The data is not a PDF file"

\* C15: a POST is answered by the first check that fails, in the order
\* API_KEY configured, key matches, SMTP credentials configured, body
\* parsing, required fields, e-mail format, PDF signature; sendMail is
\* reached only when none fails; and the handler reads the body, and takes
\* its fields, only for a request whose key matched.
C15_FirstFailingCheckAnswers ==
  \A i \in DOMAIN handlers :
    LET h == handlers[i]
    IN  h.req # <<>> /\ h.req[1].method = "POST" =>
          LET check == FirstFailingCheck(h.req[1])
          IN  /\ check # "none" =>
                   /\ ~Called(i, "smtp.sendMail")
                   /\ h.pc \in {"parsing", "done"}
                   /\ h.pc = "done" =>
                        /\ Len(h.responses) = 1
                        /\ AnsweredBy(check, h.req[1], h.responses[1])
              /\ check = "none" =>
                   h.pc = "parsing" \/ h.mailOptions # <<>>
              /\ h.pc = "parsing" \/ Called(i, "parseBody") =>
                   Authenticated(i) /\ SmtpConfigured
              /\ ~Authenticated(i) =>
                   /\ h.to = <<>> /\ h.subject = <<>> /\ h.text = <<>>
                   /\ h.pdfFilename = <<>> /\ h.pdfBuffer = <<>>

\* C15 witness: a request with both a malformed recipient and bytes that
\* are no PDF was answered for the recipient.
C15_Witness ==
  \E i \in DOMAIN handlers :
    /\ Authenticated(i)
    /\ handlers[i].pc = "done"
    /\ handlers[i].req[1].body.to = << <<"a", "@", "b">> >>
    /\ RequestPdf(handlers[i].req[1].body) = <<72, 101, 108, 108, 111>>
    /\ handlers[i].responses[1].body.error = "Invalid recipient email: a@b"

\* C16: once sendMail has succeeded the response is 200 with success=true
\* and the messageId, whichever of build, connect, list, append, logout
\* fails; imapSaved is true exactly when append and logout both completed;
\* a failed folder listing is followed by the append to 'Sent'.
C16_ArchivingIsBestEffort ==
  \A i \in DOMAIN handlers :
    Settled(i, "smtp.sendMail", TRUE) =>
      LET h == handlers[i]
          stepFailed ==
            \E op \in {"mail.build", "imap.connect", "imap.append",
                       "imap.logout"} : Settled(i, op, FALSE)
      IN  /\ h.pc = "done" =>
               /\ Len(h.responses) = 1
               /\ h.responses[1].status = 200
               /\ h.responses[1].body.success
               /\ h.responses[1].body.messageId = h.info[1]
               /\ h.responses[1].body.imapSaved <=>
                    /\ Settled(i, "imap.append", TRUE)
                    /\ Settled(i, "imap.logout", TRUE)
          /\ stepFailed => h.pc = "done" /\ ~h.responses[1].body.imapSaved
          /\ Settled(i, "imap.list", FALSE) =>
               \/ h.pc = "appending" /\ h.sentFolder = "Sent"
               \/ \E k \in 1..Len(calls[i]) :
                    /\ calls[i][k].op = "imap.append"
                    /\ calls[i][k].result = <<"Sent">>

\* C16 witness: the folder listing failed, the message was appended to
\* 'Sent' and the response says it was saved.
C16_Witness ==
  \E i \in DOMAIN handlers :
    /\ Settled(i, "imap.list", FALSE)
    /\ Settled(i, "imap.append", TRUE)
    /\ handlers[i].pc = "done"
    /\ handlers[i].responses[1].status = 200
    /\ handlers[i].responses[1].body.imapSaved

\* the page and the cache allow an invoice: rates are cached (captured at
\* the click at the latest), the page yields a record, and the five
\* required fields are on it
InvoicePossible ==
  /\ cachedDailyRates # <<>>
  /\ page.isBooking /\ page.hasContainer
  /\ page.guestName # "" /\ page.guestEmail # ""
  /\ page.checkIn # "" /\ page.checkOut # ""
  /\ page.totalPrice # 0

\* C17: an invoice click generates a PDF only if daily rates are cached,
\* parseBookingData returned a record and guestName, guestEmail, checkIn,
\* checkOut and totalPrice are all there; otherwise prepareInvoice returns
\* null: no PDF, nothing downloaded, nothing sent, the button in error.
C17_InvoiceOnlyWhenComplete ==
  click.handler \in {"download", "send"} =>
    /\ click.pdfResult # <<>> => InvoicePossible
    /\ ~InvoicePossible =>
         /\ click.pdfResult = <<>>
         /\ click.bookingData = <<>>
         /\ ~click.downloaded
         /\ click.message = <<>>
         /\ click.button = "error"

\* C17 witness: rates are cached but the page shows no guest e-mail; the
\* send click ended with the missing-fields error and no message.
C17_Witness ==
  /\ click.handler = "send"
  /\ cachedDailyRates # <<>>
  /\ page.isBooking /\ page.hasContainer /\ page.guestEmail = ""
  /\ click.toast = "missing fields"
  /\ click.button = "error"
  /\ click.message = <<>>

====
